---- MODULE Spec2Model ----
(***************************************************************************)
(* Model of the Micro-Hedge-Dashboard backtesting engine                   *)
(* (src/backtesting_engine.py) and of the part of src/app.py that calls    *)
(* it.                                                                     *)
(*                                                                         *)
(* Numbers.  A pandas float is modelled by an exact rational <<num, den>>  *)
(* with den > 0 in lowest terms; NaN is <<0, 0>>.  A price is a positive   *)
(* integer and a missing price (NaN) is 0.  A DataFrame is a function from *)
(* its column labels to columns; a column is a function from the row       *)
(* labels (dates, numbered 1..n in the order of the price index) to        *)
(* values.  The empty DataFrame pd.DataFrame() is the empty function.      *)
(***************************************************************************)
EXTENDS Integers, Sequences, FiniteSets, TLC

VARIABLES
    pc,                 \* "idle" | "fetched" | "done" | "metrics" | "reported"
    stock_list,         \* run_full_backtest argument: candidate symbols, a list
    risk_off_pct,       \* run_full_backtest argument
    risk_on_pct,        \* run_full_backtest argument
    price_data,         \* the fetched price table (get_data's return value)
    returns,            \* the returns DataFrame with its derived columns
    log_data,           \* the per-date Mode / Assets / prev_mode table
    results,            \* first return value: the cumulative-return table
    trade_log_df,       \* second return value: the trade log (a list of rows)
    cumulative_returns, \* calculate_performance_metrics argument
    initial_capital,    \* calculate_performance_metrics argument
    metrics             \* calculate_performance_metrics return value

vars == <<pc, stock_list, risk_off_pct, risk_on_pct, price_data, returns,
          log_data, results, trade_log_df, cumulative_returns,
          initial_capital, metrics>>

(***************************************************************************)
(* Program constants.                                                      *)
(***************************************************************************)
benchmark_index == "^NSEI"
neutral_etf == "NIFTYBEES.NS"
safe_haven_etf == "GOLDBEES.NS"
essential_tickers == <<benchmark_index, neutral_etf, safe_haven_etf>>

Window == 20
MomentumWindow == 60
TopN == 2
MinStocks == 2
TradingDays == 252

(***************************************************************************)
(* Bounds of the model.                                                    *)
(***************************************************************************)
\* Number of trailing days of a price table on which the benchmark moves
\* freely; the days before them are flat.
TailLen == 2
\* Longest cumulative-return series handed to calculate_performance_metrics
\* when it is checked on its own.
MaxLen == 3

(***************************************************************************)
(* Exact rational arithmetic with NaN.                                     *)
(***************************************************************************)
NaN == <<0, 0>>
IsNaN(x) == x[2] = 0
Abs(n) == IF n < 0 THEN -n ELSE n

RECURSIVE GCD(_, _)
GCD(a, b) == IF b = 0 THEN a ELSE GCD(b, a % b)

\* n / d for d > 0, in lowest terms.
Rat(n, d) == LET g == GCD(Abs(n), d) IN <<n \div g, d \div g>>

RAdd(x, y) ==
    IF IsNaN(x) \/ IsNaN(y) THEN NaN
    ELSE Rat(x[1] * y[2] + y[1] * x[2], x[2] * y[2])
RSub(x, y) == IF IsNaN(y) THEN NaN ELSE RAdd(x, <<-y[1], y[2]>>)
RMul(x, y) ==
    IF IsNaN(x) \/ IsNaN(y) THEN NaN
    ELSE Rat(x[1] * y[1], x[2] * y[2])
\* x / y; a zero divisor gives NaN or an infinity, which the callers exclude.
RDiv(x, y) ==
    IF IsNaN(x) \/ IsNaN(y) \/ y[1] = 0 THEN NaN
    ELSE IF y[1] > 0 THEN Rat(x[1] * y[2], x[2] * y[1])
    ELSE Rat(-(x[1] * y[2]), x[2] * (-y[1]))
\* IEEE comparisons: every comparison with NaN is false.
RLess(x, y) == ~IsNaN(x) /\ ~IsNaN(y) /\ x[1] * y[2] < y[1] * x[2]
RGreater(x, y) == RLess(y, x)
ROne == <<1, 1>>
RZero == <<0, 1>>

(***************************************************************************)
(* DataFrame helpers.                                                      *)
(***************************************************************************)
EmptyFrame == [c \in {} |-> <<>>]
Columns(df) == DOMAIN df
NRows(df) == IF Columns(df) = {} THEN 0
             ELSE Len(df[CHOOSE c \in Columns(df) : TRUE])
InList(x, list) == \E i \in 1..Len(list) : list[i] = x
ToSet(list) == {list[i] : i \in 1..Len(list)}

\* DataFrame.ffill: a missing price takes the most recent earlier observed
\* price; leading missing prices stay missing (never back-filled).
RECURSIVE LastObserved(_, _)
LastObserved(col, t) ==
    IF t = 0 THEN 0
    ELSE IF col[t] # 0 THEN col[t] ELSE LastObserved(col, t - 1)
ffill(col) == [t \in 1..Len(col) |-> LastObserved(col, t)]

\* get_data's result for the per-ticker downloads: a ticker whose download
\* raised or came back empty (modelled as <<>>) is skipped; no ticker at all
\* gives the empty DataFrame; the rest are concatenated and forward-filled.
get_data(downloads) ==
    LET got == {c \in DOMAIN downloads : downloads[c] # <<>>}
    IN  IF got = {} THEN EmptyFrame
        ELSE [c \in got |-> ffill(downloads[c])]

\* DataFrame.dropna(axis='columns', how='all').
dropna_columns(df) ==
    [c \in {c \in Columns(df) : \E t \in 1..Len(df[c]) : df[c][t] # 0}
        |-> df[c]]

\* Series.pct_change(periods) at row t.
pct_change(col, t, periods) ==
    IF t - periods < 1 \/ col[t] = 0 \/ col[t - periods] = 0 THEN NaN
    ELSE Rat(col[t] - col[t - periods], col[t - periods])

\* The index of price_data.pct_change().dropna(how='all').
returns_index(pd) ==
    {t \in 1..NRows(pd) :
        \E c \in Columns(pd) : ~IsNaN(pct_change(pd[c], t, 1))}

(***************************************************************************)
(* Signal generation (run_full_backtest, lines 80-86).                     *)
(***************************************************************************)
RECURSIVE SeqMax(_, _, _)
SeqMax(col, lo, hi) ==
    IF lo = hi THEN col[lo]
    ELSE LET m == SeqMax(col, lo + 1, hi)
         IN  IF col[lo] > m THEN col[lo] ELSE m
RECURSIVE SeqMin(_, _, _)
SeqMin(col, lo, hi) ==
    IF lo = hi THEN col[lo]
    ELSE LET m == SeqMin(col, lo + 1, hi)
         IN  IF col[lo] < m THEN col[lo] ELSE m

\* rolling(window=20) has min_periods = 20: the aggregate is NaN (0 here)
\* unless the window holds 20 observed prices.
RollingDefined(col, t) ==
    /\ t >= Window
    /\ \A j \in (t - Window + 1)..t : col[j] # 0
\* Variant: min_periods = 1, the maximum of whatever the window holds.
rolling_max_partial(col, t) ==
    LET lo == IF t < Window THEN 1 ELSE t - Window + 1
        seen == {j \in lo..t : col[j] # 0}
    IN  IF seen = {} THEN 0
        ELSE col[CHOOSE j \in seen : \A i \in seen : col[i] <= col[j]]
rolling_max(col, t) ==
    IF RollingDefined(col, t) THEN SeqMax(col, t - Window + 1, t) ELSE 0
rolling_min(col, t) ==
    IF RollingDefined(col, t) THEN SeqMin(col, t - Window + 1, t) ELSE 0

drawdown(pd, t) ==
    LET rm == rolling_max(pd[benchmark_index], t)
    IN  IF rm = 0 THEN NaN ELSE RSub(Rat(pd[benchmark_index][t], rm), ROne)
upward_move(pd, t) ==
    LET rm == rolling_min(pd[benchmark_index], t)
    IN  IF rm = 0 THEN NaN ELSE RSub(Rat(pd[benchmark_index][t], rm), ROne)

\* The boolean series before .shift(1), at price row t.
raw_risk_off(pd, off, t) == RLess(drawdown(pd, t), Rat(-off, 100))
\* Variant: the "not in a deep drawdown" guard left out.
raw_risk_on_unguarded(pd, off, on, t) ==
    RGreater(upward_move(pd, t), Rat(on, 100))
raw_risk_on(pd, off, on, t) ==
    /\ RGreater(upward_move(pd, t), Rat(on, 100))
    /\ RGreater(drawdown(pd, t), Rat(-off, 100))

\* Variant: the signal used on the day it is computed, .shift(1) left out.
signal_risk_off_same_day(pd, off, t) == raw_risk_off(pd, off, t)
\* .shift(1).fillna(False): row t takes the previous row's value, the first
\* row takes False.
signal_risk_off(pd, off, t) == t > 1 /\ raw_risk_off(pd, off, t - 1)
signal_risk_on(pd, off, on, t) == t > 1 /\ raw_risk_on(pd, off, on, t - 1)

(***************************************************************************)
(* Momentum ranking (lines 95-97).                                         *)
(***************************************************************************)
\* Variant: the momentum of the day itself, .shift(1) left out.
momentum_same_day(pd, c, t) == pct_change(pd[c], t, MomentumWindow)
\* price_data[valid_stock_list].pct_change(60).shift(1), column c, row t.
momentum(pd, c, t) ==
    IF t <= 1 THEN NaN ELSE pct_change(pd[c], t - 1, MomentumWindow)

\* Series.nlargest(n): positions of the n largest values, largest first, NaN
\* dropped, ties in order of appearance.
RECURSIVE NLargest(_, _, _)
NLargest(vals, n, taken) ==
    LET cand == {i \in (1..Len(vals)) \ taken : ~IsNaN(vals[i])}
    IN  IF n = 0 \/ cand = {} THEN <<>>
        ELSE LET best == CHOOSE i \in cand : \A j \in cand :
                            /\ ~RLess(vals[i], vals[j])
                            /\ (vals[j] = vals[i] => i <= j)
             IN  <<best>> \o NLargest(vals, n - 1, taken \cup {best})

\* row.nlargest(2).index.tolist() for the momentum row of date t.
top_stocks_series(pd, valid_stock_list, t) ==
    LET row == [i \in 1..Len(valid_stock_list)
                    |-> momentum(pd, valid_stock_list[i], t)]
        pos == NLargest(row, TopN, {})
    IN  [k \in 1..Len(pos) |-> valid_stock_list[pos[k]]]

\* Series.mean(): NaN entries are skipped; no entry left gives NaN.
RECURSIVE SumSkipNaN(_, _)
SumSkipNaN(xs, i) ==
    IF i = 0 THEN RZero
    ELSE IF IsNaN(xs[i]) THEN SumSkipNaN(xs, i - 1)
    ELSE RAdd(xs[i], SumSkipNaN(xs, i - 1))
Mean(xs) ==
    LET n == Cardinality({i \in 1..Len(xs) : ~IsNaN(xs[i])})
    IN  IF n = 0 THEN NaN ELSE RDiv(SumSkipNaN(xs, Len(xs)), <<n, 1>>)

\* row[top_stocks_series.loc[row.name]].mean() for the returns row of date t.
top_stock_returns(pd, valid_stock_list, t) ==
    LET assets == top_stocks_series(pd, valid_stock_list, t)
    IN  Mean([k \in 1..Len(assets) |-> pct_change(pd[assets[k]], t, 1)])

(***************************************************************************)
(* Validation (lines 64-76).                                               *)
(***************************************************************************)
EssentialsPresent(pd) ==
    \A i \in 1..Len(essential_tickers) : essential_tickers[i] \in Columns(pd)
\* [t for t in stock_list if t in price_data.columns]
valid_stock_list(pd, stocks) ==
    LET Survived(t) == t \in Columns(pd) IN SelectSeq(stocks, Survived)
\* Variant: the count of surviving candidates not checked.
Validated_essentials_only(pd, stocks) == EssentialsPresent(pd)
Validated(pd, stocks) ==
    /\ EssentialsPresent(pd)
    /\ Len(valid_stock_list(pd, stocks)) >= MinStocks

(***************************************************************************)
(* Strategy simulation (lines 78-113), one date at a time.  The returns    *)
(* table, log_data and results hold one row per date of returns_index, in  *)
(* date order: field "index" lists the dates, every other field is a       *)
(* column of the same length.                                              *)
(***************************************************************************)
RECURSIVE IndexSeq(_, _, _)
IndexSeq(idx, t, n) ==
    IF t > n THEN <<>>
    ELSE (IF t \in idx THEN <<t>> ELSE <<>>) \o IndexSeq(idx, t + 1, n)

\* returns[ticker] at date t.
ticker_return(pd, c, t) == pct_change(pd[c], t, 1)

\* returns['safe_hedge'] at date t (lines 91-93), given the date's
\* signal_risk_off.
safe_hedge(pd, off_day, t) ==
    IF off_day THEN ticker_return(pd, safe_haven_etf, t)
    ELSE ticker_return(pd, neutral_etf, t)

\* Variant: the risk-off overwrite of line 103 left out.
dynamic_strat_no_defense(pd, vsl, off_day, on_day, t) ==
    IF on_day THEN top_stock_returns(pd, vsl, t)
    ELSE ticker_return(pd, neutral_etf, t)

\* returns['dynamic_strat'] at date t (lines 100-104), given the date's two
\* signals: the neutral return, overwritten on risk-off days, overwritten
\* again on risk-on days.
dynamic_strat(pd, vsl, off_day, on_day, t) ==
    IF on_day THEN top_stock_returns(pd, vsl, t)
    ELSE IF off_day THEN ticker_return(pd, safe_haven_etf, t)
    ELSE ticker_return(pd, neutral_etf, t)

\* log_data['Mode'] for one date (lines 107-110): np.select takes the first
\* condition that holds.
Mode(off_day, on_day) ==
    IF on_day THEN "Attack" ELSE IF off_day THEN "Defense" ELSE "Neutral"

\* log_data['Assets'] at date t (lines 111-113).  A single symbol is written
\* as a one-element list.
Assets(pd, vsl, mode, t) ==
    IF mode = "Attack" THEN top_stocks_series(pd, vsl, t)
    ELSE IF mode = "Defense" THEN <<safe_haven_etf>>
    ELSE <<neutral_etf>>

\* Series.shift(1) of a column: the first row has no predecessor (NaN).
NoMode == "nan"
\* Variant: the first row compared with an initial Neutral.
Shift1_from_neutral(col) ==
    [k \in 1..Len(col) |-> IF k = 1 THEN "Neutral" ELSE col[k - 1]]
Shift1(col) == [k \in 1..Len(col) |-> IF k = 1 THEN NoMode ELSE col[k - 1]]

\* Series.cumprod() of (1 + xs): a NaN entry stays NaN and is skipped by the
\* running product.
RECURSIVE CumProdFrom(_, _, _)
CumProdFrom(xs, k, acc) ==
    IF k > Len(xs) THEN <<>>
    ELSE IF IsNaN(xs[k]) THEN <<NaN>> \o CumProdFrom(xs, k + 1, acc)
    ELSE LET a == RMul(acc, RAdd(ROne, xs[k]))
         IN  <<a>> \o CumProdFrom(xs, k + 1, a)
\* Variant: the series rebased to 1.0 on its first date.
cumprod_rebased(xs) ==
    IF Len(xs) = 0 THEN <<>> ELSE <<ROne>> \o CumProdFrom(xs, 2, ROne)
cumprod(xs) == CumProdFrom(xs, 1, ROne)

ReturnsFrame(pd, vsl, off, on) ==
    LET index == IndexSeq(returns_index(pd), 1, NRows(pd))
        n == Len(index)
        off_col == [k \in 1..n |-> signal_risk_off(pd, off, index[k])]
        on_col == [k \in 1..n |-> signal_risk_on(pd, off, on, index[k])]
    IN  [index |-> index,
         pct |-> [c \in Columns(pd) |->
                    [k \in 1..n |-> ticker_return(pd, c, index[k])]],
         signal_risk_off |-> off_col,
         signal_risk_on |-> on_col,
         buy_and_hold |->
            [k \in 1..n |-> ticker_return(pd, benchmark_index, index[k])],
         safe_hedge |-> [k \in 1..n |-> safe_hedge(pd, off_col[k], index[k])],
         dynamic_strat |->
            [k \in 1..n |->
                dynamic_strat(pd, vsl, off_col[k], on_col[k], index[k])]]

LogData(pd, vsl, ret) ==
    LET n == Len(ret.index)
        mode == [k \in 1..n |->
                    Mode(ret.signal_risk_off[k], ret.signal_risk_on[k])]
    IN  [index |-> ret.index,
         Mode |-> mode,
         Assets |-> [k \in 1..n |-> Assets(pd, vsl, mode[k], ret.index[k])],
         prev_mode |-> Shift1(mode)]

\* Lines 115-121: the rows of log_data whose Mode differs from prev_mode.
IsEntry(ld, k) == ld.Mode[k] # ld.prev_mode[k]
RECURSIVE TradeLogFrom(_, _)
TradeLogFrom(ld, k) ==
    IF k > Len(ld.index) THEN <<>>
    ELSE (IF IsEntry(ld, k)
          THEN <<[Date |-> ld.index[k], Mode |-> ld.Mode[k],
                  Action |-> "ENTER", NewAssets |-> ld.Assets[k]]>>
          ELSE <<>>) \o TradeLogFrom(ld, k + 1)
TradeLog(ld) == TradeLogFrom(ld, 1)

\* Lines 124-127.
ResultsFrame(ret) ==
    [index |-> ret.index,
     buy_and_hold_cumulative |-> cumprod(ret.buy_and_hold),
     safe_hedge_cumulative |-> cumprod(ret.safe_hedge),
     dynamic_strat_cumulative |-> cumprod(ret.dynamic_strat)]

(***************************************************************************)
(* calculate_performance_metrics (lines 31-49).  The series is a list of   *)
(* rationals.  The returned dict maps each key to the number the code      *)
(* formats into it; a NaN is formatted as the text "nan".                  *)
(***************************************************************************)
\* Series.pct_change(): NaN entries are padded from the last valid entry
\* first (the default fill_method of the pandas releases the code runs on).
RECURSIVE LastValid(_, _)
LastValid(xs, k) ==
    IF k = 0 THEN NaN
    ELSE IF ~IsNaN(xs[k]) THEN xs[k] ELSE LastValid(xs, k - 1)
series_pct_change(xs) ==
    [k \in 1..Len(xs) |->
        IF k = 1 THEN NaN
        ELSE RSub(RDiv(LastValid(xs, k), LastValid(xs, k - 1)), ROne)]

\* Series.dropna().
dropna(xs) == LET Valid(x) == ~IsNaN(x) IN SelectSeq(xs, Valid)

RECURSIVE Sum(_, _)
Sum(xs, k) == IF k = 0 THEN RZero ELSE RAdd(xs[k], Sum(xs, k - 1))

\* Series.std() squared: the sample variance (ddof = 1), NaN for fewer than
\* two values.  std() == 0 exactly when this is zero.
Variance(xs) ==
    LET n == Len(xs)
        m == Mean(xs)
        sq == [k \in 1..n |-> RMul(RSub(xs[k], m), RSub(xs[k], m))]
    IN  IF n < 2 THEN NaN ELSE RDiv(Sum(sq, n), <<n - 1, 1>>)

\* (mean / std) * sqrt(252), written as its square with the sign of the
\* mean: sign(mean) * 252 * mean^2 / variance.  NaN when mean or std is NaN.
SharpeRatio(xs) ==
    LET m == Mean(xs)
        v == Variance(xs)
        q == RDiv(RMul(<<TradingDays, 1>>, RMul(m, m)), v)
    IN  IF IsNaN(q) THEN NaN
        ELSE IF m[1] < 0 THEN <<-q[1], q[2]>> ELSE q

\* np.maximum.accumulate: a NaN, once met, stays.
RECURSIVE RunningMax(_, _)
RunningMax(xs, k) ==
    IF k = 1 THEN xs[1]
    ELSE LET prev == RunningMax(xs, k - 1)
         IN  IF IsNaN(prev) \/ IsNaN(xs[k]) THEN NaN
             ELSE IF RLess(prev, xs[k]) THEN xs[k] ELSE prev

\* Series.min(): NaN entries are skipped; no entry left gives NaN.
RECURSIVE MinSkipNaN(_, _)
MinSkipNaN(xs, k) ==
    IF k = 0 THEN NaN
    ELSE LET rest == MinSkipNaN(xs, k - 1)
         IN  IF IsNaN(xs[k]) THEN rest
             ELSE IF IsNaN(rest) \/ RLess(xs[k], rest) THEN xs[k] ELSE rest

MaxDrawdown(xs) ==
    LET dd == [k \in 1..Len(xs) |->
                 RDiv(RSub(xs[k], RunningMax(xs, k)), RunningMax(xs, k))]
    IN  RMul(MinSkipNaN(dd, Len(xs)), <<100, 1>>)

KeyFinal == "Final Value (INR)"
KeyTotal == "Total Return (%)"
KeySharpe == "Sharpe Ratio"
KeyDrawdown == "Max Drawdown (%)"

\* The test of line 37: daily_returns.std() == 0.
StdIsZero(daily_returns) == Variance(daily_returns) = RZero

calculate_performance_metrics(cum, capital) ==
    IF Len(cum) = 0 \/ IsNaN(cum[Len(cum)]) THEN [k \in {} |-> NaN]
    ELSE LET total_return == RMul(RSub(cum[Len(cum)], ROne), <<100, 1>>)
             daily_returns == dropna(series_pct_change(cum))
         IN  IF StdIsZero(daily_returns)
             THEN [k \in {KeyTotal} |-> total_return]
             ELSE [k \in {KeyFinal, KeyTotal, KeySharpe, KeyDrawdown} |->
                    CASE k = KeyFinal -> RMul(<<capital, 1>>, cum[Len(cum)])
                      [] k = KeyTotal -> total_return
                      [] k = KeySharpe -> SharpeRatio(daily_returns)
                      [] k = KeyDrawdown -> MaxDrawdown(cum)]

(***************************************************************************)
(* Inputs.  The engine's arguments come from the caller (src/app.py) and   *)
(* the prices from the data provider; both are drawn from small sets.      *)
(***************************************************************************)
RELIANCE == "RELIANCE.NS"
TCS == "TCS.NS"
INFY == "INFY.NS"

\* Candidate lists: three, two, one and no symbol.
StockLists == {<<RELIANCE, TCS, INFY>>, <<TCS, INFY>>, <<INFY>>, <<>>}

\* <<risk_off_pct, risk_on_pct>>: the defaults' neighbourhood, zero, and a
\* negative value of each.
ThresholdPairs == {<<8, 5>>, <<0, 0>>, <<-5, 5>>, <<8, -5>>}

\* Length of a price table: long enough for the 60-day momentum to be
\* defined on its last TailLen + 1 dates.
NumDays == MomentumWindow + 1 + TailLen

\* The benchmark's first price: missing (listed from the second day), or
\* below the later level.
BenchOpen == {0, 80}
BenchPrices == {85, 100, 110}
Flat(n, v) == [t \in 1..n |-> v]

\* A download that failed or came back empty.
NoData == <<>>

\* Benchmark: an opening price, flat at 100, then TailLen free days.
BenchSeries(n) ==
    {<<o>> \o Flat(n - TailLen - 1, 100) \o tail :
        o \in BenchOpen, tail \in [1..TailLen -> BenchPrices]}
NeutralSeries(n) ==
    [t \in 1..n |-> IF t = 1 THEN 2 ELSE IF t = n - 1 THEN 5 ELSE 4]
SafeSeries(n) ==
    [t \in 1..n |-> IF t = n - 1 THEN 3 ELSE IF t = n THEN 6 ELSE 2]
\* Rows exist but every close is missing.
AllMissing(n) == Flat(n, 0)
Rise(n) == [t \in 1..n |-> IF t <= 10 THEN 1 ELSE IF t = n THEN 3 ELSE 2]
\* One session missing in the raw download (day 5).
FlatGap(n) ==
    [t \in 1..n |-> IF t = 5 THEN 0 ELSE IF t >= n - 1 THEN 3 ELSE 2]
\* Listed three sessions before the end.
Late(n) ==
    [t \in 1..n |-> IF t < n - 2 THEN 0
                    ELSE IF t = n - 2 THEN 1 ELSE IF t = n - 1 THEN 2 ELSE 4]
Fall(n) == [t \in 1..n |-> IF t <= 10 THEN 4 ELSE IF t = n THEN 1 ELSE 2]
Surge(n) ==
    [t \in 1..n |-> IF t <= 10 THEN 1 ELSE IF t = n - 1 THEN 4 ELSE 8]

Outcomes(c, n) ==
    CASE c = benchmark_index -> {NoData} \cup BenchSeries(n)
      [] c = neutral_etf -> {NoData, NeutralSeries(n)}
      [] c = safe_haven_etf -> {AllMissing(n), SafeSeries(n)}
      [] c = RELIANCE -> {NoData, Rise(n)}
      [] c = TCS -> {NoData, FlatGap(n), Late(n)}
      [] c = INFY -> {Fall(n), Surge(n)}

\* The outcomes of a ticker that is asked for; a ticker that is not asked
\* for is not downloaded.
Asked(c, stocks, n) ==
    IF InList(c, essential_tickers) \/ InList(c, stocks)
    THEN Outcomes(c, n) ELSE {NoData}

(***************************************************************************)
(* State machine.                                                          *)
(***************************************************************************)
NoSeries == <<>>
NoMetrics == [k \in {} |-> NaN]

Init ==
    /\ pc = "idle"
    /\ stock_list \in StockLists
    /\ \E th \in ThresholdPairs : risk_off_pct = th[1] /\ risk_on_pct = th[2]
    /\ price_data = EmptyFrame
    /\ returns = EmptyFrame
    /\ log_data = EmptyFrame
    /\ results = EmptyFrame
    /\ trade_log_df = EmptyFrame
    /\ cumulative_returns = NoSeries
    /\ initial_capital = 0
    /\ metrics = NoMetrics

\* run_full_backtest, line 60: price_data = get_data(all_tickers, ...).
GetData ==
    /\ pc = "idle"
    /\ \E n \in {NumDays} :
       \E b \in Asked(benchmark_index, stock_list, n),
          ne \in Asked(neutral_etf, stock_list, n),
          sh \in Asked(safe_haven_etf, stock_list, n),
          r \in Asked(RELIANCE, stock_list, n),
          tc \in Asked(TCS, stock_list, n),
          inf \in Asked(INFY, stock_list, n) :
            price_data' = get_data(
                [c \in ToSet(essential_tickers) \cup ToSet(stock_list) |->
                    CASE c = benchmark_index -> b
                      [] c = neutral_etf -> ne
                      [] c = safe_haven_etf -> sh
                      [] c = RELIANCE -> r
                      [] c = TCS -> tc
                      [] c = INFY -> inf])
    /\ pc' = "fetched"
    /\ UNCHANGED <<stock_list, risk_off_pct, risk_on_pct, returns, log_data,
                   results, trade_log_df, cumulative_returns,
                   initial_capital, metrics>>

\* run_full_backtest, lines 64-129.
RunFullBacktest ==
    /\ pc = "fetched"
    /\ LET pd == dropna_columns(price_data)
           vsl == valid_stock_list(pd, stock_list)
       IN  /\ price_data' = pd
           /\ IF ~Validated(pd, stock_list)
              THEN /\ returns' = EmptyFrame
                   /\ log_data' = EmptyFrame
                   /\ results' = EmptyFrame
                   /\ trade_log_df' = EmptyFrame
              ELSE LET ret == ReturnsFrame(pd, vsl, risk_off_pct, risk_on_pct)
                       ld == LogData(pd, vsl, ret)
                   IN  /\ returns' = ret
                       /\ log_data' = ld
                       /\ results' = ResultsFrame(ret)
                       /\ trade_log_df' = TradeLog(ld)
    /\ pc' = "done"
    /\ UNCHANGED <<stock_list, risk_off_pct, risk_on_pct, cumulative_returns,
                   initial_capital, metrics>>

Next == GetData \/ RunFullBacktest

Spec == Init /\ [][Next]_vars

(***************************************************************************)
(* calculate_performance_metrics on its own: the series and the capital    *)
(* are drawn, the function is applied once.                                *)
(***************************************************************************)
\* Values of a cumulative-return series: positive numbers and NaN.
CumValues == {<<1, 1>>, <<2, 1>>, <<3, 2>>, NaN}
SeriesUpTo(n) == UNION {[1..m -> CumValues] : m \in 0..n}

InitMetrics ==
    /\ pc = "metrics"
    /\ cumulative_returns \in SeriesUpTo(MaxLen)
    /\ initial_capital \in {100000}
    /\ metrics = NoMetrics
    /\ stock_list = <<>>
    /\ risk_off_pct = 0
    /\ risk_on_pct = 0
    /\ price_data = EmptyFrame
    /\ returns = EmptyFrame
    /\ log_data = EmptyFrame
    /\ results = EmptyFrame
    /\ trade_log_df = EmptyFrame

CalculatePerformanceMetrics ==
    /\ pc = "metrics"
    /\ metrics' =
        calculate_performance_metrics(cumulative_returns, initial_capital)
    /\ pc' = "reported"
    /\ UNCHANGED <<stock_list, risk_off_pct, risk_on_pct, price_data, returns,
                   log_data, results, trade_log_df, cumulative_returns,
                   initial_capital>>

NextMetrics == CalculatePerformanceMetrics

SpecMetrics == InitMetrics /\ [][NextMetrics]_vars

(***************************************************************************)
(* Vocabulary of the properties.                                           *)
(***************************************************************************)
\* run_full_backtest has returned.
Done == pc = "done"
\* What src/app.py line 42 tests: the results table is empty.
ResultsEmpty == DOMAIN results = {}
\* run_full_backtest has returned from a run that passed validation.
Ran == Done /\ ~ResultsEmpty
Rows == 1..Len(returns.index)
\* The rows of the trade log dated t.
EntriesAt(t) ==
    {trade_log_df[i] : i \in {j \in 1..Len(trade_log_df) :
                                trade_log_df[j].Date = t}}
\* Ticker c has at least one price in table df.
HasData(df, c) ==
    c \in Columns(df) /\ \E t \in 1..Len(df[c]) : df[c][t] # 0
\* The number of benchmark prices observed strictly before date t.
SessionsBefore(t) ==
    Cardinality({s \in 1..(t - 1) : price_data[benchmark_index][s] # 0})
\* The benchmark's price of day t is below (1 - risk_off_pct/100) times a
\* price of its trailing 20 sessions, all 20 observed: its drawdown from the
\* trailing maximum is below minus the threshold.
Breach(t) ==
    /\ t >= Window
    /\ \A j \in (t - Window + 1)..t : price_data[benchmark_index][j] # 0
    /\ \E j \in (t - Window + 1)..t :
          100 * price_data[benchmark_index][t]
            < (100 - risk_off_pct) * price_data[benchmark_index][j]
\* Table df with every price of day t and later replaced by v.
MutateFrom(df, t, v) ==
    [c \in Columns(df) |->
        [s \in 1..Len(df[c]) |-> IF s >= t THEN v ELSE df[c][s]]]
LaterPrices == {1, 1000}

(***************************************************************************)
(* C2.  On every date of the return table, for every pair of thresholds    *)
(* (zero and negative ones included), signal_risk_off and signal_risk_on   *)
(* are not both true.                                                      *)
(***************************************************************************)
C2_MutuallyExclusive ==
    Ran => \A k \in Rows :
        ~(returns.signal_risk_off[k] /\ returns.signal_risk_on[k])

\* A run with a negative threshold in which each signal fires on some date.
C2_Witness ==
    /\ Ran
    /\ risk_on_pct < 0
    /\ \E k \in Rows : returns.signal_risk_off[k]
    /\ \E k \in Rows : returns.signal_risk_on[k]

(***************************************************************************)
(* C8.  On every date with fewer than 20 observed benchmark sessions       *)
(* before it both signals are false, whatever the thresholds, and both the *)
(* Binary Hedge and the Dynamic strategy hold the neutral instrument.      *)
(***************************************************************************)
C8_WarmUp ==
    Ran => \A k \in Rows :
        SessionsBefore(returns.index[k]) < Window =>
            /\ ~returns.signal_risk_off[k]
            /\ ~returns.signal_risk_on[k]
            /\ returns.safe_hedge[k] = returns.pct[neutral_etf][k]
            /\ returns.dynamic_strat[k] = returns.pct[neutral_etf][k]
            /\ log_data.Mode[k] = "Neutral"
            /\ log_data.Assets[k] = <<neutral_etf>>

\* A run whose risk-off threshold is negative, so that the raw condition
\* holds on every day with a defined drawdown: the signal is false on a
\* warm-up date and true on a later one.
C8_Witness ==
    /\ Ran
    /\ risk_off_pct < 0
    /\ \E k \in Rows :
          /\ SessionsBefore(returns.index[k]) = Window - 1
          /\ ~returns.signal_risk_off[k]
    /\ \E k \in Rows : returns.signal_risk_off[k]

(***************************************************************************)
(* C1.  No look-ahead: for every date t of the return table, a price table *)
(* that agrees with the fetched one on every day before t and differs on   *)
(* day t and later gives the same Dynamic mode, the same Binary Hedge      *)
(* choice, the same Attack asset-set and the same trade-log entry (or      *)
(* absence of one) for date t.  Every price of day t and later is replaced *)
(* by one far below and by one far above all fetched prices; two tables    *)
(* that agree before t have the same replaced table, so what holds between *)
(* each table and its replaced table holds between the two.                *)
(***************************************************************************)
C1_NoLookAhead ==
    Ran => \A k \in Rows : \A v \in LaterPrices :
        LET t == returns.index[k]
            alt == MutateFrom(price_data, t, v)
            vsl == valid_stock_list(price_data, stock_list)
            alt_vsl == valid_stock_list(alt, stock_list)
            off_day == signal_risk_off(alt, risk_off_pct, t)
            on_day == signal_risk_on(alt, risk_off_pct, risk_on_pct, t)
            mode == Mode(off_day, on_day)
            before == returns.index[k - 1]
            prev == IF k = 1 THEN NoMode
                    ELSE Mode(signal_risk_off(alt, risk_off_pct, before),
                              signal_risk_on(alt, risk_off_pct, risk_on_pct,
                                             before))
        IN  /\ mode = log_data.Mode[k]
            /\ off_day = returns.signal_risk_off[k]
            /\ on_day = returns.signal_risk_on[k]
            /\ top_stocks_series(alt, alt_vsl, t)
                 = top_stocks_series(price_data, vsl, t)
            /\ Assets(alt, alt_vsl, mode, t) = log_data.Assets[k]
            /\ EntriesAt(t) =
                 IF mode # prev
                 THEN {[Date |-> t, Mode |-> mode, Action |-> "ENTER",
                        NewAssets |-> Assets(alt, alt_vsl, mode, t)]}
                 ELSE {}

\* A date with a defined momentum ranking on which the benchmark fell below
\* the risk-off line and the strategy still entered Attack with two assets:
\* the fall shows only on the next date.
C1_Witness ==
    /\ Ran
    /\ \E k \in Rows :
          /\ Breach(returns.index[k])
          /\ log_data.Mode[k] = "Attack"
          /\ Len(log_data.Assets[k]) = TopN
          /\ EntriesAt(returns.index[k]) # {}

(***************************************************************************)
(* C3.  Validation: when any of the three required instruments is absent   *)
(* from the fetched table or has no price in it, or fewer than 2 entries   *)
(* of the candidate list have a price in it, run_full_backtest returns an  *)
(* empty results table and an empty trade log and builds no returns table  *)
(* and no mode table.                                                      *)
(***************************************************************************)
C3_ValidationAborts ==
    [][(/\ pc = "fetched"
        /\ \/ \E i \in 1..Len(essential_tickers) :
                 ~HasData(price_data, essential_tickers[i])
           \/ Cardinality({i \in 1..Len(stock_list) :
                             HasData(price_data, stock_list[i])}) < MinStocks)
       => (/\ pc' = "done"
           /\ results' = EmptyFrame
           /\ trade_log_df' = EmptyFrame
           /\ returns' = EmptyFrame
           /\ log_data' = EmptyFrame)]_vars

\* A run that asked for three candidates, got the three required
\* instruments and one candidate only, and returned empty tables.
C3_Witness ==
    /\ Done
    /\ ResultsEmpty
    /\ trade_log_df = EmptyFrame
    /\ EssentialsPresent(price_data)
    /\ Len(stock_list) = 3
    /\ Len(valid_stock_list(price_data, stock_list)) = 1

(***************************************************************************)
(* C4 as claimed.  With the tracked mode Neutral before the first date,    *)
(* the trade log has an entry for a date exactly when the date's mode      *)
(* differs from the tracked mode; no two consecutive entries have the same *)
(* mode.                                                                   *)
(***************************************************************************)
C4_TrackedFromNeutral ==
    Ran =>
        /\ \A k \in Rows :
              (EntriesAt(returns.index[k]) # {}) <=>
                 log_data.Mode[k]
                   # (IF k = 1 THEN "Neutral" ELSE log_data.Mode[k - 1])
        /\ \A i \in 1..(Len(trade_log_df) - 1) :
              trade_log_df[i].Mode # trade_log_df[i + 1].Mode

(***************************************************************************)
(* C4 as amended.  The first date always has an entry, whatever its mode   *)
(* (the tracked mode starts undefined, not Neutral); every later date has  *)
(* an entry exactly when its mode differs from the mode of the date before *)
(* it; an entry carries its date's mode and assets and the action ENTER;   *)
(* the entries are in date order, one per date at most, and no two         *)
(* consecutive entries have the same mode.                                 *)
(***************************************************************************)
C4_TradeLog ==
    Ran =>
        /\ \A k \in Rows :
              EntriesAt(returns.index[k]) =
                 IF k = 1 \/ log_data.Mode[k] # log_data.Mode[k - 1]
                 THEN {[Date |-> returns.index[k], Mode |-> log_data.Mode[k],
                        Action |-> "ENTER", NewAssets |-> log_data.Assets[k]]}
                 ELSE {}
        /\ \A i \in 1..Len(trade_log_df) :
              \E k \in Rows : trade_log_df[i].Date = returns.index[k]
        /\ \A i \in 1..(Len(trade_log_df) - 1) :
              /\ trade_log_df[i].Date < trade_log_df[i + 1].Date
              /\ trade_log_df[i].Mode # trade_log_df[i + 1].Mode

\* A log that opens with a Neutral entry on the first date and goes on to
\* an Attack entry, a Neutral entry and a Defense entry.
C4_Witness ==
    /\ Ran
    /\ Len(trade_log_df) >= 4
    /\ trade_log_df[1].Date = returns.index[1]
    /\ trade_log_df[1].Mode = "Neutral"
    /\ trade_log_df[2].Mode = "Attack"
    /\ trade_log_df[Len(trade_log_df)].Mode = "Defense"

(***************************************************************************)
(* C5.  One-day delay: when the benchmark's drawdown from its trailing     *)
(* 20-session maximum on day t is below minus the risk-off threshold, then *)
(* on the next date both the Binary Hedge and the Dynamic strategy take    *)
(* the defensive instrument's return, and the trade log holds the entry    *)
(* {t+1, Defense, ENTER, defensive symbol} if the mode on day t was not    *)
(* Defense; and a date is a risk-off date only through the day before it.  *)
(***************************************************************************)
C5_OneDayDelay ==
    Ran => \A k \in Rows :
        LET d == returns.index[k] IN
        /\ returns.signal_risk_off[k] <=> Breach(d - 1)
        /\ Breach(d - 1) =>
              /\ returns.safe_hedge[k] = returns.pct[safe_haven_etf][k]
              /\ returns.dynamic_strat[k] = returns.pct[safe_haven_etf][k]
              /\ log_data.Mode[k] = "Defense"
              /\ (k = 1 \/ log_data.Mode[k - 1] # "Defense") =>
                    [Date |-> d, Mode |-> "Defense", Action |-> "ENTER",
                     NewAssets |-> <<safe_haven_etf>>] \in EntriesAt(d)

\* With a positive threshold: a breach on a day whose own mode is Attack,
\* the day itself not breached the day before, and the Defense entry dated
\* the day after.
C5_Witness ==
    /\ Ran
    /\ risk_off_pct > 0
    /\ \E k \in Rows :
          /\ k > 1
          /\ Breach(returns.index[k] - 1)
          /\ ~Breach(returns.index[k] - 2)
          /\ log_data.Mode[k - 1] = "Attack"
          /\ returns.safe_hedge[k] # returns.pct[neutral_etf][k]
          /\ EntriesAt(returns.index[k]) # {}

(***************************************************************************)
(* C6 as claimed.  Each of the three cumulative-return series has the      *)
(* value exactly 1.0 on its first date.                                    *)
(***************************************************************************)
C6_StartsAtOne ==
    Ran =>
        /\ results.buy_and_hold_cumulative[1] = ROne
        /\ results.safe_hedge_cumulative[1] = ROne
        /\ results.dynamic_strat_cumulative[1] = ROne

(***************************************************************************)
(* C6 as amended.  On its first date (the second date of the price table:  *)
(* the first has no return) each cumulative-return series is 1 plus the    *)
(* strategy's return of that date, and undefined when that return is: the  *)
(* benchmark's return for Passive, the neutral instrument's for the Binary *)
(* Hedge and the Dynamic strategy.  The value 1.0 is the implicit base     *)
(* before the first date, not a value of the series.                       *)
(***************************************************************************)
C6_FirstValue ==
    Ran =>
        /\ results.index = returns.index
        /\ results.buy_and_hold_cumulative[1]
             = RAdd(ROne, returns.pct[benchmark_index][1])
        /\ results.safe_hedge_cumulative[1]
             = RAdd(ROne, returns.pct[neutral_etf][1])
        /\ results.dynamic_strat_cumulative[1]
             = RAdd(ROne, returns.pct[neutral_etf][1])

\* A run whose Passive series opens at 5/4 and whose other two series open
\* at 2.
C6_Witness ==
    /\ Ran
    /\ results.buy_and_hold_cumulative[1] = <<5, 4>>
    /\ results.safe_hedge_cumulative[1] = <<2, 1>>
    /\ results.dynamic_strat_cumulative[1] = <<2, 1>>

(***************************************************************************)
(* C9.  Mode resolution: on every date the mode is Attack if risk-on is    *)
(* true, else Defense if risk-off is true, else Neutral; the Dynamic       *)
(* return of the date is the return of the mode's assets (the mean of the  *)
(* recorded Attack assets' returns, the defensive instrument's return, the *)
(* neutral instrument's return); and a trade-log entry of the date carries *)
(* that mode and those assets.                                             *)
(***************************************************************************)
C9_ModeResolution ==
    Ran => \A k \in Rows :
        LET mode == log_data.Mode[k]
            assets == log_data.Assets[k]
        IN  /\ mode = (IF returns.signal_risk_on[k] THEN "Attack"
                       ELSE IF returns.signal_risk_off[k] THEN "Defense"
                       ELSE "Neutral")
            /\ mode = "Defense" => assets = <<safe_haven_etf>>
            /\ mode = "Neutral" => assets = <<neutral_etf>>
            /\ mode = "Attack" =>
                  \A i \in 1..Len(assets) : InList(assets[i], stock_list)
            /\ returns.dynamic_strat[k] =
                  Mean([i \in 1..Len(assets) |-> returns.pct[assets[i]][k]])
            /\ \A e \in EntriesAt(returns.index[k]) :
                  e.Mode = mode /\ e.NewAssets = assets

\* A run that is in each of the three modes on some date, in Attack with
\* two assets whose mean return is neither asset's return.
C9_Witness ==
    /\ Ran
    /\ \E k \in Rows : log_data.Mode[k] = "Neutral"
    /\ \E k \in Rows : log_data.Mode[k] = "Defense"
    /\ \E k \in Rows :
          /\ log_data.Mode[k] = "Attack"
          /\ Len(log_data.Assets[k]) = TopN
          /\ \A i \in 1..TopN :
                returns.dynamic_strat[k]
                  # returns.pct[log_data.Assets[k][i]][k]

(***************************************************************************)
(* C10.  On every date in Attack mode the asset-set is exactly two         *)
(* distinct candidate symbols, the two with the highest trailing 60-day    *)
(* return through the day before, and the day's return is the mean of the  *)
(* two candidates' returns; also on dates before 60 sessions of candidate  *)
(* history exist.                                                          *)
(***************************************************************************)
C10_AttackTopTwo ==
    Ran => \A k \in Rows :
        log_data.Mode[k] = "Attack" =>
            LET t == returns.index[k]
                a == log_data.Assets[k]
                cands == {c \in ToSet(stock_list) : c \in Columns(price_data)}
            IN  /\ Len(a) = TopN
                /\ a[1] # a[2]
                /\ {a[1], a[2]} \subseteq cands
                /\ \A c \in cands \ {a[1], a[2]} :
                      ~RLess(momentum(price_data, a[2], t),
                             momentum(price_data, c, t))
                /\ ~RLess(momentum(price_data, a[1], t),
                          momentum(price_data, a[2], t))
                /\ returns.dynamic_strat[k] =
                      RDiv(RAdd(returns.pct[a[1]][k], returns.pct[a[2]][k]),
                           <<2, 1>>)

(***************************************************************************)
(* C7.  calculate_performance_metrics, given a series whose daily returns  *)
(* have zero variance or a series of one data point, returns total return  *)
(* without the Sharpe ratio and max drawdown keys, and never reports a NaN *)
(* Sharpe ratio.                                                           *)
(***************************************************************************)
C7_DegenerateMetrics ==
    (/\ pc = "reported"
     /\ Len(cumulative_returns) >= 1
     /\ \A k \in 1..Len(cumulative_returns) : ~IsNaN(cumulative_returns[k])
     /\ \A i, j \in 2..Len(cumulative_returns) :
           RDiv(cumulative_returns[i], cumulative_returns[i - 1])
             = RDiv(cumulative_returns[j], cumulative_returns[j - 1]))
    => /\ KeyTotal \in DOMAIN metrics
       /\ KeySharpe \notin DOMAIN metrics
       /\ KeyDrawdown \notin DOMAIN metrics

====
